---- MODULE Spec2Model ----
(***************************************************************************)
(* The reactive task store of the task tracker (TaskService), the         *)
(* subscription channel it publishes snapshots on, and the root component *)
(* (AppComponent) that drives the store from the user's events.           *)
(*                                                                         *)
(* A string is the sequence of its pieces, a piece being one whitespace   *)
(* character or a run of text that neither begins nor ends with           *)
(* whitespace, so that trim() is the computation the code performs.  A    *)
(* Task is a record with the fields of the Task interface; an             *)
(* UpdateTaskRequest is a record whose DOMAIN holds exactly the keys the  *)
(* caller supplied.  Array positions are 1-based (findIndex's -1 is 0).   *)
(***************************************************************************)
EXTENDS Integers, Sequences, FiniteSets, TLC

VARIABLES
  tasks,         \* TaskService.tasks: the authoritative collection
  tasksSubject,  \* the BehaviorSubject's current value (last value passed to next)
  nextId,        \* TaskService.nextId
  now,           \* the latest value the wall clock was read at (Date.now / new Date)
  last,          \* the most recent store call: operation, arguments, the store
                 \* before the call, and the result its observable resolves with
  before,        \* the call that preceded it, kept when it was a
                 \* toggleTaskCompletion (read by the toggle round trip)
  calls,         \* number of store calls made since construction
  issued,        \* every id generateId has returned, in order
  subscribers,   \* active subscriptions of getTasks(), in subscription order
  timers,        \* pending delay() notifications, in scheduling order
  received,      \* per subscriber, the snapshots its next-callback was given
  expected,      \* per subscriber, the snapshot at subscription followed by the
                 \* collection after every successful mutation since
  statuses,      \* per subscriber, << c >> if it subscribed to
                 \* getTasksByStatus(c) and << >> if to getTasks()
  results,       \* what the callers that subscribed to the observable a call
                 \* returned were handed, in order of delivery
  appTasks,      \* AppComponent.tasks: the component's copy of the collection
  editingTask,   \* AppComponent.editingTask (null: none)
  isLoading,     \* AppComponent.isLoading
  isSubmitting,  \* AppComponent.isSubmitting
  errorMessage,  \* AppComponent.errorMessage
  successMessage,\* AppComponent.successMessage
  lifecycle,     \* "constructed", "initialized" (after ngOnInit) or
                 \* "destroyed" (after ngOnDestroy)
  event,         \* the most recent step of the component: the handler or
                 \* callback that ran, what it was given, and the component
                 \* as it was before
  formData,      \* TaskFormComponent.formData: the two fields of the form
  formEvent      \* the most recent step of the form: the method that ran,
                 \* formData before it, and what it emitted on taskSubmit

storeVars == <<tasks, tasksSubject, nextId, now>>
callVars == <<last, before, calls, issued>>
channelVars == <<subscribers, timers, received, expected, statuses>>
appVars == <<appTasks, editingTask, isLoading, isSubmitting, errorMessage,
             successMessage, lifecycle, event>>
formVars == <<formData, formEvent>>
vars == <<tasks, tasksSubject, nextId, now, last, before, calls, issued,
          subscribers, timers, received, expected, statuses, results, appTasks,
          editingTask, isLoading, isSubmitting, errorMessage, successMessage,
          lifecycle, event, formData, formEvent>>

-----------------------------------------------------------------------------
(* Bounds of the model. *)

MaxClock == 1

MaxCalls == 2

MaxSubscribers == 2

-----------------------------------------------------------------------------
(* Strings. *)

\* The whitespace pieces: characters String.prototype.trim removes.
Whitespace == {" ", "\t"}

RECURSIVE trimStart(_)
trimStart(s) ==
  IF s = <<>> THEN s
  ELSE IF Head(s) \in Whitespace THEN trimStart(Tail(s)) ELSE s

RECURSIVE trimEnd(_)
trimEnd(s) ==
  IF s = <<>> THEN s
  ELSE IF s[Len(s)] \in Whitespace THEN trimEnd(SubSeq(s, 1, Len(s) - 1)) ELSE s

trim(s) == trimEnd(trimStart(s))

Digits == << "0", "1", "2", "3", "4", "5", "6", "7", "8", "9" >>

\* `${n}` for a non-negative integer: its decimal digits.
RECURSIVE toString(_)
toString(n) ==
  IF n < 10 THEN << Digits[n + 1] >>
  ELSE toString(n \div 10) \o << Digits[(n % 10) + 1] >>

-----------------------------------------------------------------------------
(* Sample data of initializeSampleData. *)

SampleTitle1 == << "Learn Angular 18" >>

SampleDescription1 ==
  << "Study the new features and improvements in Angular 18" >>

SampleTitle2 == << "Build Task Tracker" >>

SampleDescription2 == << "Create a simple task management application" >>

SampleTitle3 == << "Write Unit Tests" >>

SampleDescription3 ==
  << "Add comprehensive test coverage for all components" >>

sampleTasks ==
  << [title |-> SampleTitle1, description |-> SampleDescription1],
     [title |-> SampleTitle2, description |-> SampleDescription2],
     [title |-> SampleTitle3, description |-> SampleDescription3] >>

-----------------------------------------------------------------------------
(* Results of a store call: what the returned observable resolves with. *)

Ok(value) == [ok |-> TRUE, value |-> value]

\* throwError(() => new Error(message)); a message is a sequence of pieces.
Error(message) == [ok |-> FALSE, name |-> "Error", message |-> message]

TitleRequired == << "Task title is required" >>

TitleCannotBeEmpty == << "Task title cannot be empty" >>

NotFound(id) == << "Task with ID ", id, " not found" >>

\* JavaScript's null: the not-found value of getTaskById, the empty
\* editingTask.
null == [isNull |-> TRUE]

\* A call that returns throwError before touching anything.
Rejected(s, message) ==
  [tasks |-> s.tasks, nextId |-> s.nextId, now |-> s.now, emitted |-> <<>>,
   result |-> Error(message)]

-----------------------------------------------------------------------------
(* TaskService, as functions of the store s = [tasks, nextId, now] and the *)
(* clock values the call reads.  Each returns the store after the call,   *)
(* the values it passed to tasksSubject.next, and its result.             *)

\* Array.prototype.findIndex(t => t.id === id): the first position, or 0.
findIndex(ts, id) ==
  IF \E i \in 1..Len(ts) : ts[i].id = id
  THEN CHOOSE i \in 1..Len(ts) :
         /\ ts[i].id = id
         /\ \A j \in 1..(i - 1) : ts[j].id # id
  ELSE 0

\* Array.prototype.splice(i, 1)
splice(ts, i) == SubSeq(ts, 1, i - 1) \o SubSeq(ts, i + 1, Len(ts))

\* { ...a, ...b }: b's keys override a's.
spread(a, b) ==
  [k \in (DOMAIN a) \cup (DOMAIN b) |-> IF k \in DOMAIN b THEN b[k] ELSE a[k]]

\* tasks.find(task => task.id === id), resolved with the task or null.  The
\* call changes nothing and announces nothing.
getTaskById(s, id) ==
  LET i == findIndex(s.tasks, id) IN
  [tasks |-> s.tasks, nextId |-> s.nextId, now |-> s.now, emitted |-> <<>>,
   result |-> Ok(IF i = 0 THEN null ELSE s.tasks[i])]

\* Mutant: the filter keeps the tasks whose flag differs.
getTasksByStatus_Inverted(snapshot, completed) ==
  SelectSeq(snapshot, LAMBDA task : task.completed # completed)

\* The map of getTasksByStatus, applied to a snapshot of getTasks():
\* tasks.filter(task => task.completed === completed).
getTasksByStatus(snapshot, completed) ==
  SelectSeq(snapshot, LAMBDA task : task.completed = completed)

\* Mutant: the id is built from the clock alone (`task_${Date.now()}`).
generateId_ClockOnly(n, t) ==
  << "task_" >> \o toString(t)

generateId(n, t) ==
  << "task_" >> \o toString(n) \o << "_" >> \o toString(t)

\* x?.trim() || fallback, for a key of the request that may be absent.
trimOr(updates, key, fallback) ==
  IF key \in DOMAIN updates /\ trim(updates[key]) # <<>>
  THEN trim(updates[key])
  ELSE fallback

\* Mutant: the title is tested before trimming (!taskData.title).
createTask_UntrimmedCheck(s, taskData, tId, tCreated, tUpdated) ==
  IF taskData.title = <<>>
  THEN Rejected(s, TitleRequired)
  ELSE LET newTask ==
             [id |-> generateId(s.nextId, tId),
              title |-> trim(taskData.title),
              description |-> trimOr(taskData, "description", <<>>),
              completed |-> FALSE,
              createdAt |-> tCreated,
              updatedAt |-> tUpdated]
           pushed == Append(s.tasks, newTask)
       IN  [tasks |-> pushed, nextId |-> s.nextId + 1, now |-> tUpdated,
            emitted |-> << pushed >>, result |-> Ok(newTask)]

\* tId, tCreated, tUpdated: the clock at Date.now() in generateId and at the
\* two new Date() of the object literal, in evaluation order.
createTask(s, taskData, tId, tCreated, tUpdated) ==
  IF trim(taskData.title) = <<>>
  THEN Rejected(s, TitleRequired)
  ELSE LET newTask ==
             [id |-> generateId(s.nextId, tId),
              title |-> trim(taskData.title),
              description |-> trimOr(taskData, "description", <<>>),
              completed |-> FALSE,
              createdAt |-> tCreated,
              updatedAt |-> tUpdated]
           pushed == Append(s.tasks, newTask)
       IN  [tasks |-> pushed, nextId |-> s.nextId + 1, now |-> tUpdated,
            emitted |-> << pushed >>, result |-> Ok(newTask)]

\* Mutant: the title of the request is not validated; a blank one falls back to
\* the existing title like an omitted one.
updateTask_NoTitleCheck(s, id, updates, t) ==
  LET taskIndex == findIndex(s.tasks, id) IN
  IF taskIndex = 0
  THEN Rejected(s, NotFound(id))
  ELSE LET existingTask == s.tasks[taskIndex]
           merged == spread(existingTask, updates)
           updatedTask ==
             [merged EXCEPT
                !.title = trimOr(updates, "title", existingTask.title),
                !.description =
                   trimOr(updates, "description", existingTask.description),
                !.updatedAt = t]
           replaced == [s.tasks EXCEPT ![taskIndex] = updatedTask]
       IN  [tasks |-> replaced, nextId |-> s.nextId, now |-> t,
            emitted |-> << replaced >>, result |-> Ok(updatedTask)]

\* Mutant: the updated task is returned without replacing the stored one or
\* being announced.
updateTask_Unstored(s, id, updates, t) ==
  LET taskIndex == findIndex(s.tasks, id) IN
  IF taskIndex = 0
  THEN Rejected(s, NotFound(id))
  ELSE IF "title" \in DOMAIN updates /\ trim(updates.title) = <<>>
  THEN Rejected(s, TitleCannotBeEmpty)
  ELSE LET existingTask == s.tasks[taskIndex]
           merged == spread(existingTask, updates)
           updatedTask ==
             [merged EXCEPT
                !.title = trimOr(updates, "title", existingTask.title),
                !.description =
                   trimOr(updates, "description", existingTask.description),
                !.updatedAt = t]
       IN  [tasks |-> s.tasks, nextId |-> s.nextId, now |-> t,
            emitted |-> <<>>, result |-> Ok(updatedTask)]

\* Mutant: the title is validated before the id is looked up.
updateTask_TitleFirst(s, id, updates, t) ==
  LET taskIndex == findIndex(s.tasks, id) IN
  IF "title" \in DOMAIN updates /\ trim(updates.title) = <<>>
  THEN Rejected(s, TitleCannotBeEmpty)
  ELSE IF taskIndex = 0
  THEN Rejected(s, NotFound(id))
  ELSE LET existingTask == s.tasks[taskIndex]
           merged == spread(existingTask, updates)
           updatedTask ==
             [merged EXCEPT
                !.title = trimOr(updates, "title", existingTask.title),
                !.description =
                   trimOr(updates, "description", existingTask.description),
                !.updatedAt = t]
           replaced == [s.tasks EXCEPT ![taskIndex] = updatedTask]
       IN  [tasks |-> replaced, nextId |-> s.nextId, now |-> t,
            emitted |-> << replaced >>, result |-> Ok(updatedTask)]

\* Mutant: the title of the request is stored as given.
updateTask_StoresUntrimmed(s, id, updates, t) ==
  LET taskIndex == findIndex(s.tasks, id) IN
  IF taskIndex = 0
  THEN Rejected(s, NotFound(id))
  ELSE IF "title" \in DOMAIN updates /\ trim(updates.title) = <<>>
  THEN Rejected(s, TitleCannotBeEmpty)
  ELSE LET existingTask == s.tasks[taskIndex]
           merged == spread(existingTask, updates)
           updatedTask ==
             [merged EXCEPT
                !.title = IF "title" \in DOMAIN updates
                          THEN updates.title
                          ELSE existingTask.title,
                !.description =
                   trimOr(updates, "description", existingTask.description),
                !.updatedAt = t]
           replaced == [s.tasks EXCEPT ![taskIndex] = updatedTask]
       IN  [tasks |-> replaced, nextId |-> s.nextId, now |-> t,
            emitted |-> << replaced >>, result |-> Ok(updatedTask)]

\* Mutant: an update stamps createdAt like updatedAt.
updateTask_ResetsCreatedAt(s, id, updates, t) ==
  LET taskIndex == findIndex(s.tasks, id) IN
  IF taskIndex = 0
  THEN Rejected(s, NotFound(id))
  ELSE IF "title" \in DOMAIN updates /\ trim(updates.title) = <<>>
  THEN Rejected(s, TitleCannotBeEmpty)
  ELSE LET existingTask == s.tasks[taskIndex]
           merged == spread(existingTask, updates)
           updatedTask ==
             [merged EXCEPT
                !.title = trimOr(updates, "title", existingTask.title),
                !.description =
                   trimOr(updates, "description", existingTask.description),
                !.createdAt = t,
                !.updatedAt = t]
           replaced == [s.tasks EXCEPT ![taskIndex] = updatedTask]
       IN  [tasks |-> replaced, nextId |-> s.nextId, now |-> t,
            emitted |-> << replaced >>, result |-> Ok(updatedTask)]

updateTask(s, id, updates, t) ==
  LET taskIndex == findIndex(s.tasks, id) IN
  IF taskIndex = 0
  THEN Rejected(s, NotFound(id))
  ELSE IF "title" \in DOMAIN updates /\ trim(updates.title) = <<>>
  THEN Rejected(s, TitleCannotBeEmpty)
  ELSE LET existingTask == s.tasks[taskIndex]
           merged == spread(existingTask, updates)
           updatedTask ==
             [merged EXCEPT
                !.title = trimOr(updates, "title", existingTask.title),
                !.description =
                   trimOr(updates, "description", existingTask.description),
                !.updatedAt = t]
           replaced == [s.tasks EXCEPT ![taskIndex] = updatedTask]
       IN  [tasks |-> replaced, nextId |-> s.nextId, now |-> t,
            emitted |-> << replaced >>, result |-> Ok(updatedTask)]

\* Mutant: the index is not tested; splice(-1, 1) removes the last task.
deleteTask_NoIndexCheck(s, id) ==
  LET taskIndex == findIndex(s.tasks, id)
      at == IF taskIndex = 0 THEN Len(s.tasks) ELSE taskIndex
      spliced == splice(s.tasks, at)
  IN  [tasks |-> spliced, nextId |-> s.nextId, now |-> s.now,
       emitted |-> << spliced >>, result |-> Ok(TRUE)]

\* Mutant: the last task is moved into the place of the removed one.
deleteTask_SwapRemove(s, id) ==
  LET taskIndex == findIndex(s.tasks, id) IN
  IF taskIndex = 0
  THEN Rejected(s, NotFound(id))
  ELSE LET n == Len(s.tasks)
           swapped == [s.tasks EXCEPT ![taskIndex] = s.tasks[n]]
           spliced == SubSeq(swapped, 1, n - 1)
       IN  [tasks |-> spliced, nextId |-> s.nextId, now |-> s.now,
            emitted |-> << spliced >>, result |-> Ok(TRUE)]

\* Mutant: the task is removed without tasksSubject.next.
deleteTask_NoNext(s, id) ==
  LET taskIndex == findIndex(s.tasks, id) IN
  IF taskIndex = 0
  THEN Rejected(s, NotFound(id))
  ELSE [tasks |-> splice(s.tasks, taskIndex), nextId |-> s.nextId,
        now |-> s.now, emitted |-> <<>>, result |-> Ok(TRUE)]

\* Mutant: the call only answers; the collection keeps the task.
deleteTask_NoSplice(s, id) ==
  LET taskIndex == findIndex(s.tasks, id) IN
  IF taskIndex = 0
  THEN Rejected(s, NotFound(id))
  ELSE [tasks |-> s.tasks, nextId |-> s.nextId, now |-> s.now,
        emitted |-> << s.tasks >>, result |-> Ok(TRUE)]

deleteTask(s, id) ==
  LET taskIndex == findIndex(s.tasks, id) IN
  IF taskIndex = 0
  THEN Rejected(s, NotFound(id))
  ELSE LET spliced == splice(s.tasks, taskIndex)
       IN  [tasks |-> spliced, nextId |-> s.nextId, now |-> s.now,
            emitted |-> << spliced >>, result |-> Ok(TRUE)]

\* Mutant: toggle marks the task completed instead of negating the flag.
toggleTaskCompletion_AlwaysTrue(s, id, t) ==
  LET i == findIndex(s.tasks, id) IN
  IF i = 0
  THEN Rejected(s, NotFound(id))
  ELSE updateTask(s, id, [completed |-> TRUE], t)

toggleTaskCompletion(s, id, t) ==
  LET i == findIndex(s.tasks, id) IN
  IF i = 0
  THEN Rejected(s, NotFound(id))
  ELSE updateTask(s, id, [completed |-> ~s.tasks[i].completed], t)

-----------------------------------------------------------------------------
(* The state after construction: the constructor runs createTask on each  *)
(* sample, in order, on an empty store.  The clock is counted from         *)
(* construction.                                                           *)

RECURSIVE initializeSampleData(_, _)
initializeSampleData(s, k) ==
  IF k > Len(sampleTasks) THEN s
  ELSE LET out == createTask(s, sampleTasks[k], s.now, s.now, s.now)
       IN  initializeSampleData(
             [tasks |-> out.tasks, nextId |-> out.nextId, now |-> out.now,
              subject |-> out.emitted[Len(out.emitted)]], k + 1)

\* Mutant: the seed tasks are stored without being announced on the subject.
Constructed_NoNext ==
  [initializeSampleData([tasks |-> <<>>, nextId |-> 1, now |-> 0, subject |-> <<>>], 1)
     EXCEPT !.subject = <<>>]

Constructed ==
  initializeSampleData([tasks |-> <<>>, nextId |-> 1, now |-> 0, subject |-> <<>>], 1)

NoCall == [op |-> "none"]

\* formData of a new or reset form.
EmptyForm == [title |-> <<>>, description |-> <<>>]

\* The component before any of its handlers ran.
NoEvent == [kind |-> "none"]

Init ==
  /\ tasks = Constructed.tasks
  /\ tasksSubject = Constructed.subject
  /\ nextId = Constructed.nextId
  /\ now = Constructed.now
  /\ last = NoCall
  /\ before = NoCall
  /\ calls = 0
  /\ issued = [i \in 1..Len(Constructed.tasks) |-> Constructed.tasks[i].id]
  /\ subscribers = <<>>
  /\ timers = <<>>
  /\ received = <<>>
  /\ expected = <<>>
  /\ results = <<>>
  /\ appTasks = <<>>
  /\ editingTask = null
  /\ isLoading = FALSE
  /\ isSubmitting = FALSE
  /\ errorMessage = <<>>
  /\ successMessage = <<>>
  /\ lifecycle = "constructed"
  /\ event = NoEvent
  /\ statuses = <<>>
  /\ formData = EmptyForm
  /\ formEvent = NoEvent

-----------------------------------------------------------------------------
(* Store calls. *)

Store == [tasks |-> tasks, nextId |-> nextId, now |-> now]

\* delay(100) of getTasks, in milliseconds.
GetTasksDelay == 100

\* tasksSubject.next(v) hands v to the delay(100) of every active subscription.
Broadcast(values) ==
  LET RECURSIVE each(_)
      each(k) ==
        IF k > Len(values) THEN <<>>
        ELSE [i \in 1..Len(subscribers) |->
                [sub |-> subscribers[i], value |-> values[k],
                 delay |-> GetTasksDelay]] \o each(k + 1)
  IN  each(1)

\* The effect on the store and its channel of a call whose outcome is out;
\* scheduled holds the timers that subscribing to the returned observable
\* starts, which come after those of the announcements the call made.
Effect(op, args, out, scheduled) ==
  /\ calls < MaxCalls
  /\ tasks' = out.tasks
  /\ nextId' = out.nextId
  /\ now' = out.now
  /\ tasksSubject' =
       IF out.emitted = <<>> THEN tasksSubject ELSE out.emitted[Len(out.emitted)]
  /\ timers' = timers \o Broadcast(out.emitted) \o scheduled
  /\ last' = [op |-> op, args |-> args, pre |-> Store, preSubject |-> tasksSubject,
              emitted |-> out.emitted, result |-> out.result]
  /\ before' = IF last.op = "toggleTaskCompletion" THEN last ELSE NoCall
  /\ calls' = calls + 1
  /\ issued' = IF op = "createTask" /\ out.result.ok
               THEN Append(issued, out.result.value.id)
               ELSE issued
  /\ expected' = [i \in DOMAIN expected |->
                    IF out.result.ok /\ (\E j \in DOMAIN subscribers : subscribers[j] = i)
                    THEN Append(expected[i], out.tasks)
                    ELSE expected[i]]
  /\ UNCHANGED <<subscribers, received, statuses>>

\* A call whose returned observable nobody subscribes to.
Commit(op, args, out) ==
  /\ Effect(op, args, out, <<>>)
  /\ UNCHANGED <<results, formVars, appVars>>

\* A clock reading: the clock does not run backwards and the model stops it at
\* MaxClock.
ClockReads(t0, t1) == now <= t0 /\ t0 <= t1 /\ t1 <= MaxClock

CreateTask(taskData, tId, tCreated, tUpdated) ==
  /\ ClockReads(tId, tCreated)
  /\ ClockReads(tCreated, tUpdated)
  /\ Commit("createTask", [taskData |-> taskData],
            createTask(Store, taskData, tId, tCreated, tUpdated))

UpdateTask(id, updates, t) ==
  /\ ClockReads(t, t)
  /\ Commit("updateTask", [id |-> id, updates |-> updates],
            updateTask(Store, id, updates, t))

DeleteTask(id) ==
  Commit("deleteTask", [id |-> id], deleteTask(Store, id))

ToggleTaskCompletion(id, t) ==
  /\ ClockReads(t, t)
  /\ Commit("toggleTaskCompletion", [id |-> id], toggleTaskCompletion(Store, id, t))

-----------------------------------------------------------------------------
(* The subscription channel: getTasks() is the subject piped through       *)
(* delay(100).  A subscription is named by its rank among all              *)
(* subscriptions ever made.                                                *)

IsActive(k) == \E i \in DOMAIN subscribers : subscribers[i] = k

\* What the subscriber k is handed of a snapshot v of getTasks(): v itself, or
\* v through the map of getTasksByStatus.
Handed(k, v) ==
  IF statuses[k] = <<>> THEN v ELSE getTasksByStatus(v, statuses[k][1])

\* Mutant: a plain Subject, which replays nothing to a new subscription.
Subscribe_NoReplay ==
  /\ Len(received) < MaxSubscribers
  /\ LET k == Len(received) + 1 IN
       /\ subscribers' = Append(subscribers, k)
       /\ received' = Append(received, <<>>)
       /\ expected' = Append(expected, << tasks >>)
       /\ statuses' = Append(statuses, <<>>)
  /\ UNCHANGED <<storeVars, callVars, timers, results, formVars, appVars>>

\* getTasks().subscribe(next): the BehaviorSubject replays its current value to
\* the new subscription, which schedules it like any other.
Subscribe ==
  /\ Len(received) < MaxSubscribers
  /\ LET k == Len(received) + 1 IN
       /\ subscribers' = Append(subscribers, k)
       /\ timers' = Append(timers, [sub |-> k, value |-> tasksSubject,
                                    delay |-> GetTasksDelay])
       /\ received' = Append(received, <<>>)
       /\ expected' = Append(expected, << tasks >>)
       /\ statuses' = Append(statuses, <<>>)
  /\ UNCHANGED <<storeVars, callVars, results, formVars, appVars>>

\* getTasksByStatus(completed).subscribe(next): a subscription of getTasks()
\* whose snapshots pass through the map.
SubscribeByStatus(completed) ==
  /\ Len(received) < MaxSubscribers
  /\ LET k == Len(received) + 1 IN
       /\ subscribers' = Append(subscribers, k)
       /\ timers' = Append(timers, [sub |-> k, value |-> tasksSubject,
                                    delay |-> GetTasksDelay])
       /\ received' = Append(received, <<>>)
       /\ expected' = Append(expected, << tasks >>)
       /\ statuses' = Append(statuses, << completed >>)
  /\ UNCHANGED <<storeVars, callVars, results, formVars, appVars>>

\* Mutant: the pending timers run out in any order.
MayFire_Any(i) == TRUE

\* A timer may fire once every timer scheduled before it with the same or a
\* shorter delay has fired: those were due no later than it is.
MayFire(i) ==
  \A j \in 1..(i - 1) : timers[j].delay > timers[i].delay

\* Mutant: the notification scheduled last is delivered first.
Deliver_NewestFirst ==
  /\ timers # <<>>
  /\ LET i == Len(timers) IN
       /\ received' = [received EXCEPT ![timers[i].sub] =
                                 Append(@, Handed(timers[i].sub, timers[i].value))]
       /\ timers' = splice(timers, i)
  /\ UNCHANGED <<storeVars, callVars, subscribers, expected, statuses, results,
                 formVars, appVars>>

\* A delayed notification comes due and is handed to its subscriber.
Deliver ==
  /\ \E i \in 1..Len(timers) :
       /\ MayFire(i)
       /\ received' = [received EXCEPT ![timers[i].sub] =
                                 Append(@, Handed(timers[i].sub, timers[i].value))]
       /\ timers' = splice(timers, i)
  /\ UNCHANGED <<storeVars, callVars, subscribers, expected, statuses, results,
                 formVars, appVars>>

\* Subscription.unsubscribe(): the subscription leaves the subject and delay
\* drops the notifications it still holds for it.
Unsubscribe(k) ==
  /\ IsActive(k)
  /\ subscribers' = SelectSeq(subscribers, LAMBDA x : x # k)
  /\ timers' = SelectSeq(timers, LAMBDA t : t.sub # k)
  /\ UNCHANGED <<storeVars, callVars, received, statuses, expected, results, formVars, appVars>>

-----------------------------------------------------------------------------
(* Inputs. *)

Blank == { <<>>, << " ", "\t" >> }

TitleInputs == Blank \cup { << " ", "a", " " >> }

DescriptionInputs == { <<>>, << " " >>, << " ", "b", "\t" >> }

CreateInputs == [title : TitleInputs, description : DescriptionInputs]

NoUpdates == [k \in {} |-> TRUE]

UpdateInputs ==
  { NoUpdates }
  \cup { [title |-> x] : x \in TitleInputs }
  \cup { [description |-> x] : x \in DescriptionInputs }
  \cup { [completed |-> x] : x \in BOOLEAN }
  \cup { [title |-> << " ", "a", " " >>, description |-> x] : x \in DescriptionInputs }
  \cup { [title |-> x, description |-> << " ", "b", "\t" >>, completed |-> TRUE] :
           x \in TitleInputs }

InvalidId == << "invalid-id" >>

\* Every id ever issued (held by a task now, or by a task deleted since) and one
\* that never was.
IdInputs == { issued[i] : i \in DOMAIN issued } \cup { InvalidId }

\* The values the clock may be read at.
Clock == 0..MaxClock

Next ==
  \/ \E taskData \in CreateInputs, tId, tCreated, tUpdated \in Clock :
       CreateTask(taskData, tId, tCreated, tUpdated)
  \/ \E id \in IdInputs, updates \in UpdateInputs, t \in Clock :
       UpdateTask(id, updates, t)
  \/ \E id \in IdInputs : DeleteTask(id)
  \/ \E id \in IdInputs, t \in Clock : ToggleTaskCompletion(id, t)

Spec == Init /\ [][Next]_vars

\* The store with subscribers on its channel; the calls are a cut of the inputs
\* above that keeps each way a call can end.
ChannelCreateInputs ==
  { [title |-> << " ", "a", " " >>, description |-> <<>>],
    [title |-> << " ", "\t" >>, description |-> <<>>] }

ChannelUpdateInputs ==
  { [completed |-> TRUE], [title |-> <<>>] }

\* The id of the first sample task (deleted or not) and one never issued.
ChannelIdInputs == { issued[1], InvalidId }

\* Every call reads the clock where it stands: what the channel carries does
\* not depend on the timestamps.
NextChannel ==
  \/ \E taskData \in ChannelCreateInputs : CreateTask(taskData, now, now, now)
  \/ \E id \in ChannelIdInputs, updates \in ChannelUpdateInputs :
       UpdateTask(id, updates, now)
  \/ \E id \in ChannelIdInputs : DeleteTask(id)
  \/ \E id \in ChannelIdInputs : ToggleTaskCompletion(id, now)
  \/ Subscribe
  \/ Deliver
  \/ \E k \in 1..MaxSubscribers : Unsubscribe(k)

SpecChannel == Init /\ [][NextChannel]_vars

\* The store with subscribers of getTasksByStatus on its channel.
NextByStatus ==
  \/ \E taskData \in ChannelCreateInputs : CreateTask(taskData, now, now, now)
  \/ \E id \in ChannelIdInputs : DeleteTask(id)
  \/ \E id \in ChannelIdInputs : ToggleTaskCompletion(id, now)
  \/ \E completed \in BOOLEAN : SubscribeByStatus(completed)
  \/ Deliver

SpecByStatus == Init /\ [][NextByStatus]_vars

-----------------------------------------------------------------------------
(* Callers that subscribe to what a call returns.  A successful call       *)
(* returns of(value).pipe(delay(..)): the value is handed over when the    *)
(* delay, started at the subscription, has run.  A failing call returns    *)
(* throwError(..), which hands the error over during the subscription.     *)

\* delay(100) of createTask, updateTask, deleteTask and toggleTaskCompletion.
ResultDelay == 100

\* delay(50) of getTaskById.
GetTaskByIdDelay == 50

\* The timers started by subscribing to the observable of the call numbered n.
Scheduled(n, op, args, out, d) ==
  IF out.result.ok
  THEN << [call |-> n, op |-> op, args |-> args, result |-> out.result,
           delay |-> d] >>
  ELSE <<>>

\* service.op(..).subscribe(..), issued at once after the call returned.
Request(op, args, out, d) ==
  /\ Effect(op, args, out, Scheduled(calls + 1, op, args, out, d))
  /\ results' = IF out.result.ok
                 THEN results
                 ELSE Append(results, [call |-> calls + 1, result |-> out.result])
  /\ UNCHANGED <<appVars, formVars>>

\* The delay of a result has run: the subscriber is handed the value.
Settle ==
  /\ \E i \in 1..Len(timers) :
       /\ MayFire(i)
       /\ results' = Append(results, [call |-> timers[i].call,
                                      result |-> timers[i].result])
       /\ timers' = splice(timers, i)
  /\ UNCHANGED <<storeVars, callVars, subscribers, received, statuses, expected, appVars,
                 formVars>>

NextCalls ==
  \/ \E taskData \in ChannelCreateInputs :
       Request("createTask", [taskData |-> taskData],
               createTask(Store, taskData, now, now, now), ResultDelay)
  \/ \E id \in ChannelIdInputs, updates \in ChannelUpdateInputs :
       Request("updateTask", [id |-> id, updates |-> updates],
               updateTask(Store, id, updates, now), ResultDelay)
  \/ \E id \in ChannelIdInputs :
       Request("deleteTask", [id |-> id], deleteTask(Store, id), ResultDelay)
  \/ \E id \in ChannelIdInputs :
       Request("toggleTaskCompletion", [id |-> id],
               toggleTaskCompletion(Store, id, now), ResultDelay)
  \/ \E id \in ChannelIdInputs :
       Request("getTaskById", [id |-> id], getTaskById(Store, id),
               GetTaskByIdDelay)
  \/ Settle

SpecCalls == Init /\ [][NextCalls]_vars

-----------------------------------------------------------------------------
(* AppComponent.  Every handler runs to its end in one step, the call it   *)
(* makes on the store and the subscription to what the call returns        *)
(* included; a next-callback runs in a later step, when its delay has run, *)
(* and an error-callback runs inside the handler, throwError handing the   *)
(* error over during the subscription.  The messages are sequences of      *)
(* pieces like every string; they are never trimmed.                       *)

\* The component's fields, as the template reads them.
App ==
  [tasks |-> appTasks, editingTask |-> editingTask, isLoading |-> isLoading,
   isSubmitting |-> isSubmitting, errorMessage |-> errorMessage,
   successMessage |-> successMessage]

\* Mutant: the operation's own text is shown whatever the error says.
handleError_Generic(message, error) == message

\* this.errorMessage = error?.message || message
handleError(message, error) ==
  IF "message" \in DOMAIN error /\ error.message # <<>>
  THEN error.message
  ELSE message

FailedToLoad == << "Failed to load tasks" >>
FailedToUpdate == << "Failed to update task" >>
FailedToCreate == << "Failed to create task" >>
FailedToToggle == << "Failed to update task status" >>
FailedToDelete == << "Failed to delete task" >>

UpdatedMessage(task) == << "Task \"" >> \o task.title \o << "\" updated successfully!" >>
CreatedMessage(task) == << "Task \"" >> \o task.title \o << "\" created successfully!" >>
ToggledMessage(task) ==
  << "Task marked as ", IF task.completed THEN "completed" ELSE "pending", "!" >>
DeletedMessage == << "Task deleted successfully!" >>

\* setTimeout(.., 3000) of showSuccess, in milliseconds.
SuccessTimeout == 3000

\* The timer showSuccess starts; nothing ever cancels it.
ClearTimer == [clear |-> TRUE, delay |-> SuccessTimeout]

\* Mutant: showSuccess sets the message without starting a timer.
setTimeout_Never(queue, t) == queue

\* setTimeout(callback, ms): the timer joins the pending ones.
setTimeout(queue, t) == Append(queue, t)

IsSnapshot(t) == "sub" \in DOMAIN t
IsResult(t) == "call" \in DOMAIN t
IsClear(t) == "clear" \in DOMAIN t

\* What a step of the component leaves in event: the component, the number
\* of calls made and the store's collection are those before the step.
Ran(kind, given) ==
  event' = [kind |-> kind, given |-> given, pre |-> App, calls |-> calls,
            store |-> tasks]

\* ngOnInit -> loadTasks: the subscription to getTasks() is the component's.
NgOnInit ==
  /\ lifecycle = "constructed"
  /\ lifecycle' = "initialized"
  /\ isLoading' = TRUE
  /\ errorMessage' = <<>>
  /\ successMessage' = <<>>
  /\ LET k == Len(received) + 1 IN
       /\ subscribers' = Append(subscribers, k)
       /\ timers' = Append(timers, [sub |-> k, value |-> tasksSubject,
                                    delay |-> GetTasksDelay])
       /\ received' = Append(received, <<>>)
       /\ expected' = Append(expected, << tasks >>)
       /\ statuses' = Append(statuses, <<>>)
  /\ Ran("ngOnInit", <<>>)
  /\ UNCHANGED <<storeVars, callVars, results, formVars, appTasks, editingTask, isSubmitting>>

\* error-callback of loadTasks, on the component's fields c.  The subject of
\* the store never fails, so no step of the model runs it.
loadError(c, error) ==
  [c EXCEPT !.errorMessage = handleError(FailedToLoad, error),
            !.isLoading = FALSE]

\* Mutant: only the first snapshot is taken (take(1)).
LoadNext_OnlyFirst ==
  /\ \E i \in 1..Len(timers) :
       /\ MayFire(i)
       /\ IsSnapshot(timers[i])
       /\ received[timers[i].sub] = <<>>
       /\ received' = [received EXCEPT ![timers[i].sub] = Append(@, timers[i].value)]
       /\ timers' = splice(timers, i)
       /\ appTasks' = timers[i].value
       /\ Ran("loadNext", timers[i].value)
  /\ isLoading' = FALSE
  /\ UNCHANGED <<storeVars, callVars, subscribers, expected, statuses, results,
                 formVars, editingTask, isSubmitting, errorMessage,
                 successMessage, lifecycle>>

\* Mutant: a snapshot is stored without ending the loading state.
LoadNext_StaysLoading ==
  /\ \E i \in 1..Len(timers) :
       /\ MayFire(i)
       /\ IsSnapshot(timers[i])
       /\ received' = [received EXCEPT ![timers[i].sub] = Append(@, timers[i].value)]
       /\ timers' = splice(timers, i)
       /\ appTasks' = timers[i].value
       /\ Ran("loadNext", timers[i].value)
  /\ UNCHANGED <<storeVars, callVars, subscribers, expected, statuses, results,
                 formVars, editingTask, isLoading, isSubmitting, errorMessage,
                 successMessage, lifecycle>>

\* next-callback of loadTasks: a snapshot of getTasks() comes due.
LoadNext ==
  /\ \E i \in 1..Len(timers) :
       /\ MayFire(i)
       /\ IsSnapshot(timers[i])
       /\ received' = [received EXCEPT ![timers[i].sub] = Append(@, timers[i].value)]
       /\ timers' = splice(timers, i)
       /\ appTasks' = timers[i].value
       /\ Ran("loadNext", timers[i].value)
  /\ isLoading' = FALSE
  /\ UNCHANGED <<storeVars, callVars, subscribers, expected, statuses, results,
                 formVars, editingTask, isSubmitting, errorMessage,
                 successMessage, lifecycle>>

\* A handler's call on the store, subscribed through takeUntil(destroy$):
\* clearMessages() has run, and a failure reaches handleError at once.
Invoke(op, args, out, generic) ==
  /\ Effect(op, args, out, Scheduled(calls + 1, op, args, out, ResultDelay))
  /\ successMessage' = <<>>
  /\ errorMessage' = IF out.result.ok THEN <<>> ELSE handleError(generic, out.result)
  /\ UNCHANGED <<results, formVars, appTasks, editingTask, isLoading, lifecycle>>

\* Mutant: the submit creates a task whether or not one is being edited.
OnTaskSubmit_AlwaysCreates(taskData) ==
  /\ lifecycle = "initialized"
  /\ LET out == createTask(Store, taskData, now, now, now) IN
       /\ Invoke("createTask", [taskData |-> taskData], out, FailedToCreate)
       /\ isSubmitting' = out.result.ok
  /\ Ran("onTaskSubmit", taskData)

\* Mutant: the error-callbacks leave isSubmitting set.
OnTaskSubmit_StaysSubmitting(taskData) ==
  /\ lifecycle = "initialized"
  /\ IF editingTask # null
     THEN Invoke("updateTask", [id |-> editingTask.id, updates |-> taskData],
                 updateTask(Store, editingTask.id, taskData, now), FailedToUpdate)
     ELSE Invoke("createTask", [taskData |-> taskData],
                 createTask(Store, taskData, now, now, now), FailedToCreate)
  /\ isSubmitting' = TRUE
  /\ Ran("onTaskSubmit", taskData)

OnTaskSubmit(taskData) ==
  /\ lifecycle = "initialized"
  /\ IF editingTask # null
     THEN LET out == updateTask(Store, editingTask.id, taskData, now) IN
          /\ Invoke("updateTask", [id |-> editingTask.id, updates |-> taskData],
                    out, FailedToUpdate)
          /\ isSubmitting' = out.result.ok
     ELSE LET out == createTask(Store, taskData, now, now, now) IN
          /\ Invoke("createTask", [taskData |-> taskData], out, FailedToCreate)
          /\ isSubmitting' = out.result.ok
  /\ Ran("onTaskSubmit", taskData)

OnToggleComplete(taskId) ==
  /\ lifecycle = "initialized"
  /\ Invoke("toggleTaskCompletion", [id |-> taskId],
            toggleTaskCompletion(Store, taskId, now), FailedToToggle)
  /\ Ran("onToggleComplete", taskId)
  /\ UNCHANGED isSubmitting

\* Mutant: beginning an edit leaves the messages showing.
OnEditTask_KeepsMessages(task) ==
  /\ lifecycle = "initialized"
  /\ editingTask' = task
  /\ Ran("onEditTask", task)
  /\ UNCHANGED <<storeVars, callVars, channelVars, results, formVars, appTasks, isLoading,
                 isSubmitting, errorMessage, successMessage, lifecycle>>

OnEditTask(task) ==
  /\ lifecycle = "initialized"
  /\ editingTask' = task
  /\ errorMessage' = <<>>
  /\ successMessage' = <<>>
  /\ Ran("onEditTask", task)
  /\ UNCHANGED <<storeVars, callVars, channelVars, results, formVars, appTasks, isLoading,
                 isSubmitting, lifecycle>>

OnDeleteTask(taskId) ==
  /\ lifecycle = "initialized"
  /\ Invoke("deleteTask", [id |-> taskId], deleteTask(Store, taskId), FailedToDelete)
  /\ Ran("onDeleteTask", taskId)
  /\ UNCHANGED isSubmitting

OnCancelEdit ==
  /\ lifecycle = "initialized"
  /\ editingTask' = null
  /\ errorMessage' = <<>>
  /\ successMessage' = <<>>
  /\ Ran("onCancelEdit", <<>>)
  /\ UNCHANGED <<storeVars, callVars, channelVars, results, formVars, appTasks, isLoading,
                 isSubmitting, lifecycle>>

\* The Dismiss button of the error alert.
ClearError ==
  /\ lifecycle = "initialized"
  /\ errorMessage' = <<>>
  /\ Ran("clearError", <<>>)
  /\ UNCHANGED <<storeVars, callVars, channelVars, results, formVars, appTasks, editingTask,
                 isLoading, isSubmitting, successMessage, lifecycle>>

\* The next-callbacks of the handlers, on the component's fields c.
updateNext(c, updatedTask) ==
  [c EXCEPT !.successMessage = UpdatedMessage(updatedTask),
            !.editingTask = null,
            !.isSubmitting = FALSE]

\* Mutant: a created task ends the edit like an updated one.
createNext_EndsEdit(c, newTask) ==
  [c EXCEPT !.successMessage = CreatedMessage(newTask),
            !.editingTask = null,
            !.isSubmitting = FALSE]

createNext(c, newTask) ==
  [c EXCEPT !.successMessage = CreatedMessage(newTask),
            !.isSubmitting = FALSE]

\* Mutant: the message says 'completed' for every toggle.
toggleNext_AlwaysCompleted(c, updatedTask) ==
  [c EXCEPT !.successMessage = << "Task marked as ", "completed", "!" >>]

toggleNext(c, updatedTask) ==
  [c EXCEPT !.successMessage = ToggledMessage(updatedTask)]

\* Mutant: no delete ends the edit.
deleteNext_NeverEndsEdit(c, taskId) ==
  [c EXCEPT !.successMessage = DeletedMessage]

\* Mutant: any delete ends the edit.
deleteNext_AlwaysEndsEdit(c, taskId) ==
  [c EXCEPT !.successMessage = DeletedMessage, !.editingTask = null]

deleteNext(c, taskId) ==
  [c EXCEPT !.successMessage = DeletedMessage,
            !.editingTask = IF c.editingTask # null /\ c.editingTask.id = taskId
                            THEN null
                            ELSE c.editingTask]

\* The delay of a handler's result has run: its next-callback is given the
\* value, and the showSuccess in it starts its timer.
ResultNext ==
  /\ \E i \in 1..Len(timers) :
       LET t == timers[i]
           c == CASE t.op = "updateTask" -> updateNext(App, t.result.value)
                  [] t.op = "createTask" -> createNext(App, t.result.value)
                  [] t.op = "toggleTaskCompletion" -> toggleNext(App, t.result.value)
                  [] t.op = "deleteTask" -> deleteNext(App, t.args.id)
       IN  /\ MayFire(i)
           /\ IsResult(t)
           /\ timers' = setTimeout(splice(timers, i), ClearTimer)
           /\ successMessage' = c.successMessage
           /\ editingTask' = c.editingTask
           /\ isSubmitting' = c.isSubmitting
           /\ Ran("resultNext", [op |-> t.op, args |-> t.args, result |-> t.result])
  /\ UNCHANGED <<storeVars, callVars, subscribers, received, statuses, expected, results, formVars,
                 appTasks, isLoading, errorMessage, lifecycle>>

\* The 3000 ms of a showSuccess have run.
SuccessTimeoutElapsed ==
  /\ \E i \in 1..Len(timers) :
       /\ MayFire(i)
       /\ IsClear(timers[i])
       /\ timers' = splice(timers, i)
  /\ successMessage' = <<>>
  /\ Ran("successTimeout", <<>>)
  /\ UNCHANGED <<storeVars, callVars, subscribers, received, statuses, expected, results, formVars,
                 appTasks, editingTask, isLoading, isSubmitting, errorMessage,
                 lifecycle>>

\* Mutant: the subscriptions are not piped through takeUntil(destroy$).
NgOnDestroy_KeepsSubscriptions ==
  /\ lifecycle = "initialized"
  /\ lifecycle' = "destroyed"
  /\ Ran("ngOnDestroy", <<>>)
  /\ UNCHANGED <<storeVars, callVars, channelVars, results, formVars, appTasks,
                 editingTask, isLoading, isSubmitting, errorMessage,
                 successMessage>>

\* ngOnDestroy: destroy$ fires, and takeUntil ends every subscription the
\* component made, dropping what their delays still hold.  The view is gone,
\* so no handler runs afterwards.
NgOnDestroy ==
  /\ lifecycle = "initialized"
  /\ lifecycle' = "destroyed"
  /\ subscribers' = <<>>
  /\ timers' = SelectSeq(timers, IsClear)
  /\ Ran("ngOnDestroy", <<>>)
  /\ UNCHANGED <<storeVars, callVars, received, statuses, expected, results, formVars, appTasks,
                 editingTask, isLoading, isSubmitting, errorMessage,
                 successMessage>>

\* What the form emits: a title, blank or not, and a description.
SubmitInputs == ChannelCreateInputs

\* The task list shows the component's copy of the collection: its events
\* carry a task of that copy, or the id of one.  The user acts on the first
\* two rows.
Shown == { appTasks[i] : i \in DOMAIN appTasks \cap {1, 2} }

NextApp ==
  \/ NgOnInit
  \/ LoadNext
  \/ \E taskData \in SubmitInputs : OnTaskSubmit(taskData)
  \/ \E task \in Shown : OnToggleComplete(task.id)
  \/ \E task \in Shown : OnEditTask(task)
  \/ \E task \in Shown : OnDeleteTask(task.id)
  \/ OnCancelEdit
  \/ ClearError
  \/ ResultNext
  \/ SuccessTimeoutElapsed
  \/ NgOnDestroy

SpecApp == Init /\ [][NextApp]_vars

\* The component with delays that run out: a snapshot or a result whose timer
\* may fire is eventually handed over.  Either step takes its timer off the
\* queue, so fairness is stated on the steps that change timers.
SpecAppFair ==
  Init /\ [][NextApp]_vars /\ WF_timers(LoadNext) /\ WF_timers(ResultNext)

-----------------------------------------------------------------------------
(* What the properties below read of the latest call. *)

Called(op) == last.op = op

\* Position, before the call, of the task the call names (0: no such task).
TargetIndex == findIndex(last.pre.tasks, last.args.id)

TitleAcceptable(updates) ==
  "title" \notin DOMAIN updates \/ trim(updates.title) # <<>>

\* The call changed nothing of the store and passed nothing to next().
StoreUntouched ==
  /\ tasks = last.pre.tasks
  /\ nextId = last.pre.nextId
  /\ tasksSubject = last.preSubject
  /\ last.emitted = <<>>

\* tasks is pre with position i replaced by some task.
OnlyChangedAt(pre, i) ==
  /\ Len(tasks) = Len(pre)
  /\ \A j \in 1..Len(pre) : j # i => tasks[j] = pre[j]

-----------------------------------------------------------------------------
\* C1: for every create request whose title is non-blank after trimming, create
\* succeeds, the collection grows by exactly that task appended at the end, and
\* the returned task has the trimmed title and description, completed = FALSE,
\* an id no task ever had before, and createdAt equal to updatedAt.
C1_CreateValid ==
  (Called("createTask") /\ trim(last.args.taskData.title) # <<>>) =>
    /\ last.result.ok
    /\ tasks = Append(last.pre.tasks, last.result.value)
    /\ last.result.value.title = trim(last.args.taskData.title)
    /\ last.result.value.description = trim(last.args.taskData.description)
    /\ last.result.value.completed = FALSE
    /\ \A i \in 1..(Len(issued) - 1) : issued[i] # last.result.value.id
    /\ last.result.value.createdAt = last.result.value.updatedAt

\* C2: a create request with an empty or whitespace-only title fails with the
\* message 'Task title is required'; the collection is unchanged, no id is
\* consumed and nothing is broadcast.
C2_CreateBlankRejected ==
  (Called("createTask") /\ trim(last.args.taskData.title) = <<>>) =>
    /\ ~last.result.ok
    /\ last.result.message = << "Task title is required" >>
    /\ StoreUntouched
    /\ Len(issued) = last.pre.nextId - 1

C2_Witness ==
  /\ Called("createTask")
  /\ last.args.taskData.title = << " ", "\t" >>
  /\ ~last.result.ok
  /\ calls = 2

\* C3: for an id in the collection and an update request whose title is omitted
\* or non-blank, update succeeds; each of title, description and completed that
\* is omitted keeps its value, each supplied title/description is stored
\* trimmed, every other task is unchanged, and updatedAt does not decrease.
C3_UpdateMerges ==
  (Called("updateTask") /\ TargetIndex # 0 /\ TitleAcceptable(last.args.updates)) =>
    LET u == last.args.updates
        old == last.pre.tasks[TargetIndex]
        new == tasks[TargetIndex]
    IN  /\ last.result.ok
        /\ OnlyChangedAt(last.pre.tasks, TargetIndex)
        /\ last.result.value = new
        /\ new.title = IF "title" \in DOMAIN u THEN trim(u.title) ELSE old.title
        /\ new.description =
             IF "description" \in DOMAIN u THEN trim(u.description) ELSE old.description
        /\ "completed" \notin DOMAIN u => new.completed = old.completed
        /\ new.updatedAt >= old.updatedAt

\* C4: for an existing id, an update that explicitly supplies an empty or
\* whitespace-only description is accepted and clears the description, while
\* one that omits description leaves it unchanged.
C4_EmptyDescriptionClears ==
  (Called("updateTask") /\ TargetIndex # 0 /\ TitleAcceptable(last.args.updates)) =>
    LET u == last.args.updates
        old == last.pre.tasks[TargetIndex]
        new == tasks[TargetIndex]
    IN  /\ last.result.ok
        /\ ("description" \in DOMAIN u /\ trim(u.description) = <<>>) =>
             new.description = <<>>
        /\ "description" \notin DOMAIN u => new.description = old.description

\* C5: for an id in the collection, update with an explicitly supplied empty or
\* whitespace-only title fails with the message 'Task title cannot be empty' and
\* leaves the whole collection (that task's updatedAt included) unchanged, with
\* nothing broadcast.
C5_UpdateBlankTitleRejected ==
  (Called("updateTask") /\ TargetIndex # 0 /\ ~TitleAcceptable(last.args.updates)) =>
    /\ ~last.result.ok
    /\ last.result.message = << "Task title cannot be empty" >>
    /\ StoreUntouched

C5_Witness ==
  /\ Called("updateTask")
  /\ TargetIndex # 0
  /\ "title" \in DOMAIN last.args.updates
  /\ last.args.updates.title = << " ", "\t" >>
  /\ "completed" \in DOMAIN last.args.updates
  /\ ~last.result.ok

\* C6: for an id not in the collection (ids of deleted tasks included), update,
\* delete and toggleCompletion each fail with a message containing 'not found'
\* and leave the collection unchanged, with nothing broadcast.
C6_UnknownIdRejected ==
  (/\ last.op \in {"updateTask", "deleteTask", "toggleTaskCompletion"}
   /\ TargetIndex = 0) =>
    /\ ~last.result.ok
    /\ \E k \in 1..Len(last.result.message) : last.result.message[k] = " not found"
    /\ StoreUntouched

\* An id whose task was deleted by an earlier call is refused by each of the
\* three operations; this one is the update.
C6_Witness ==
  /\ Called("updateTask")
  /\ TargetIndex = 0
  /\ \E i \in DOMAIN issued : issued[i] = last.args.id
  /\ ~last.result.ok

\* C7: for an existing id, toggleCompletion has the effect of
\* update(id, {completed: NOT completed}): the returned and stored task has
\* completed flipped and id, title, description and createdAt unchanged; applied
\* twice in a row to the same id it restores completed, with title, description
\* and createdAt as they were.
C7_ToggleFlips ==
  (Called("toggleTaskCompletion") /\ TargetIndex # 0) =>
    LET old == last.pre.tasks[TargetIndex]
        new == tasks[TargetIndex]
    IN  /\ last.result.ok
        /\ OnlyChangedAt(last.pre.tasks, TargetIndex)
        /\ last.result.value = new
        /\ new.completed = ~old.completed
        /\ new.id = old.id
        /\ new.title = old.title
        /\ new.description = old.description
        /\ new.createdAt = old.createdAt
        /\ new.updatedAt = now
        /\ DOMAIN new = DOMAIN old
        /\ (/\ before.op = "toggleTaskCompletion"
            /\ before.args.id = last.args.id
            /\ before.result.ok) =>
             LET first == before.pre.tasks[findIndex(before.pre.tasks, last.args.id)]
             IN  /\ new.completed = first.completed
                 /\ new.title = first.title
                 /\ new.description = first.description
                 /\ new.createdAt = first.createdAt

C7_Witness ==
  /\ Called("toggleTaskCompletion")
  /\ last.result.ok
  /\ before.op = "toggleTaskCompletion"
  /\ before.args.id = last.args.id
  /\ before.result.ok
  /\ before.result.value.completed
  /\ ~last.result.value.completed

\* C8: after any sequence of create, update, delete and toggle calls, no two
\* tasks of the collection share an id, and no id create assigned was assigned
\* before, also when the earlier task was deleted and when both creates read the
\* same clock value.
C8_IdsUnique ==
  /\ \A i, j \in 1..Len(tasks) : tasks[i].id = tasks[j].id => i = j
  /\ \A i, j \in 1..Len(issued) : issued[i] = issued[j] => i = j
  /\ \A i \in 1..Len(tasks) : \E k \in 1..Len(issued) : issued[k] = tasks[i].id

\* A create that follows a delete and reads the clock value the sample tasks
\* were created at.
C8_Witness ==
  /\ Called("createTask")
  /\ last.result.ok
  /\ Len(last.pre.tasks) < Len(sampleTasks)
  /\ last.result.value.id = generateId(last.pre.nextId, 0)
  /\ last.pre.tasks[1].id = generateId(2, 0)

\* C9: in every reachable state the snapshot most recently broadcast (the
\* subject's value) has the size, order and contents of the collection.
C9_SnapshotIsCollection ==
  /\ Len(tasksSubject) = Len(tasks)
  /\ \A i \in 1..Len(tasks) : tasksSubject[i] = tasks[i]

C9_Witness ==
  /\ calls = 2
  /\ Called("deleteTask")
  /\ last.result.ok
  /\ Len(tasks) = Len(sampleTasks)

\* The snapshots still scheduled for subscription k, in scheduling order.
Pending(k) ==
  LET mine == SelectSeq(timers, LAMBDA t : t.sub = k)
  IN  [i \in 1..Len(mine) |-> mine[i].value]

IsPrefix(a, b) ==
  /\ Len(a) <= Len(b)
  /\ \A i \in 1..Len(a) : a[i] = b[i]

\* C10: every successful create, update, delete or toggle causes exactly one
\* delivery of the entire resulting collection to each subscriber active at that
\* time, in the order the mutations were applied, none skipped or merged, and a
\* failed call causes none: what a subscriber has received is, snapshot by
\* snapshot, the beginning of the collections that followed its subscription,
\* and what it has received and still has scheduled is exactly that sequence.
C10_DeliveriesFollowMutations ==
  \A k \in 1..Len(received) :
    /\ IsPrefix(received[k], expected[k])
    /\ IsActive(k) => received[k] \o Pending(k) = expected[k]

\* Two subscribers: the first was handed the snapshot at its subscription and
\* those of two successful mutations, in that order; the second subscribed
\* between the two mutations and was handed its own first snapshot and the
\* second mutation's.
C10_Witness ==
  \E k, m \in 1..Len(received) :
    /\ k # m
    /\ calls = 2
    /\ received[k] = expected[k]
    /\ Len(received[k]) = 3
    /\ received[k][2] # received[k][3]
    /\ received[m] = expected[m]
    /\ Len(received[m]) = 2
    /\ received[m][1] = received[k][2]
    /\ received[m][2] = tasks

\* C11, as stated: a subscriber has its first snapshot before any later store
\* operation runs, so a subscription still waiting for its first delivery has
\* seen no change of the collection since it subscribed.
C11_FirstDeliveryImmediate ==
  \A k \in 1..Len(received) :
    (IsActive(k) /\ received[k] = <<>>) => Len(expected[k]) = 1

\* C11, amended: the first snapshot a subscriber receives is the collection as
\* it was at the moment of subscription; it arrives after the delay of
\* getTasks(), so store operations may run before it.
C11_FirstDeliveryIsSubscriptionSnapshot ==
  \A k \in 1..Len(received) :
    received[k] # <<>> => received[k][1] = expected[k][1]

\* A first snapshot arrives after a later operation changed the collection.
C11_Witness ==
  \E k \in 1..Len(received) :
    /\ Len(received[k]) = 1
    /\ Len(expected[k]) = 2
    /\ received[k][1] = expected[k][1]
    /\ received[k][1] # tasks

\* C13: as long as no operation has been called on a newly constructed store,
\* the collection holds exactly the 3 seed tasks in seed order, the first titled
\* 'Learn Angular 18', all not completed, with pairwise distinct ids, and every
\* snapshot a subscriber receives is that collection.
C13_SeedState ==
  calls = 0 =>
    /\ Len(tasks) = 3
    /\ tasks[1].title = << "Learn Angular 18" >>
    /\ \A i \in 1..3 :
         /\ tasks[i].title = sampleTasks[i].title
         /\ tasks[i].description = sampleTasks[i].description
         /\ tasks[i].completed = FALSE
    /\ \A i, j \in 1..3 : i # j => tasks[i].id # tasks[j].id
    /\ \A k \in 1..Len(received) :
         \A n \in 1..Len(received[k]) : received[k][n] = tasks

\* A first subscriber has received the seed snapshot.
C13_Witness ==
  /\ calls = 0
  /\ Len(received) >= 1
  /\ received[1] = << tasks >>
  /\ Len(tasks) = 3

\* C12: a call is validated and applied against the collection as the calls
\* before it left it, whether or not their delayed results were delivered:
\* while the result of an earlier successful deleteTask of an id is still
\* undelivered, an updateTask, toggleTaskCompletion or deleteTask of that id
\* fails with the not-found error and a getTaskById of it resolves with null;
\* while the result of the immediately preceding updateTask or
\* toggleTaskCompletion is undelivered, a getTaskById of that id resolves with
\* the task that call produced.
C12_AppliedAtCallTime ==
  \A i \in 1..Len(timers) :
    LET earlier == timers[i] IN
    ( /\ earlier.call < calls
      /\ "id" \in DOMAIN earlier.args
      /\ "id" \in DOMAIN last.args
      /\ last.args.id = earlier.args.id )
    =>
      /\ (earlier.op = "deleteTask"
            /\ last.op \in {"updateTask", "toggleTaskCompletion", "deleteTask"})
           => /\ last.result = Error(NotFound(last.args.id))
              /\ tasks = last.pre.tasks
      /\ (earlier.op = "deleteTask" /\ last.op = "getTaskById")
           => last.result = Ok(null)
      /\ (earlier.op \in {"updateTask", "toggleTaskCompletion"}
            /\ earlier.call = calls - 1
            /\ last.op = "getTaskById")
           => last.result = earlier.result

\* The null of a getTaskById issued right after a deleteTask of the same id
\* has been delivered while the result of that deleteTask is still on its way.
C12_Witness ==
  /\ calls = 2
  /\ last.op = "getTaskById"
  /\ Len(results) = 1
  /\ results[1].call = 2
  /\ results[1].result.value = null
  /\ Len(timers) = 1
  /\ timers[1].op = "deleteTask"
  /\ timers[1].call = 1
  /\ timers[1].args.id = last.args.id

-----------------------------------------------------------------------------
(* TaskFormComponent: the two fields bound to the inputs by ngModel, and   *)
(* what the form emits on taskSubmit.                                      *)

\* Mutant: the title is tested before trimming (if (this.formData.title)).
onSubmit_UntrimmedCheck(data) ==
  IF data.title # <<>>
  THEN << [title |-> trim(data.title), description |-> trim(data.description)] >>
  ELSE <<>>

\* onSubmit, as the values it emits on taskSubmit for the fields data.
onSubmit(data) ==
  IF trim(data.title) # <<>>
  THEN << [title |-> trim(data.title), description |-> trim(data.description)] >>
  ELSE <<>>

\* What a step of the form leaves in formEvent.
FormRan(kind, emitted) ==
  formEvent' = [kind |-> kind, pre |-> formData, emitted |-> emitted]

\* ngOnInit of the form, with the task bound to its input (null: none).
FormNgOnInit(task) ==
  /\ formEvent = NoEvent
  /\ formData' = IF task # null
                  THEN [title |-> task.title, description |-> task.description]
                  ELSE formData
  /\ FormRan("ngOnInit", <<>>)
  /\ UNCHANGED <<storeVars, callVars, channelVars, results, appVars>>

\* The user edits a field: ngModel writes the text into formData.
Input(field, text) ==
  /\ formEvent # NoEvent
  /\ formData' = [formData EXCEPT ![field] = text]
  /\ FormRan("input", <<>>)
  /\ UNCHANGED <<storeVars, callVars, channelVars, results, appVars>>

OnSubmit ==
  /\ formEvent # NoEvent
  /\ FormRan("onSubmit", onSubmit(formData))
  /\ UNCHANGED <<storeVars, callVars, channelVars, results, appVars, formData>>

\* onCancel: resetForm(), then cancel.emit().
OnCancel ==
  /\ formEvent # NoEvent
  /\ formData' = EmptyForm
  /\ FormRan("onCancel", <<>>)
  /\ UNCHANGED <<storeVars, callVars, channelVars, results, appVars>>

FormTitleInputs == TitleInputs \cup { << "a" >>, << "a", " ", "b" >> }

NextForm ==
  \/ \E task \in {null, Constructed.tasks[1]} : FormNgOnInit(task)
  \/ \E text \in FormTitleInputs : Input("title", text)
  \/ \E text \in DescriptionInputs : Input("description", text)
  \/ OnSubmit
  \/ OnCancel

SpecForm == Init /\ [][NextForm]_vars

-----------------------------------------------------------------------------
(* The form inside AppComponent's template: its task input is bound to     *)
(* editingTask, its taskSubmit output to onTaskSubmit and its cancel output *)
(* to onCancelEdit.  The element has no structural directive: one form is  *)
(* created with the component and lives as long as it does.                *)

\* ngOnInit of the form, with [task]="editingTask".
TaskFormNgOnInit ==
  /\ lifecycle = "initialized"
  /\ FormNgOnInit(editingTask)

\* The form is submitted: what onSubmit emits, if anything, is handed to
\* onTaskSubmit in the same step.
TaskSubmit ==
  IF onSubmit(formData) = <<>>
  THEN OnSubmit
  ELSE /\ formEvent # NoEvent
       /\ OnTaskSubmit(onSubmit(formData)[1])

\* The Cancel button: onCancel resets the fields and emits cancel, which
\* runs onCancelEdit.
Cancel ==
  /\ formEvent # NoEvent
  /\ lifecycle = "initialized"
  /\ formData' = EmptyForm
  /\ FormRan("onCancel", <<>>)
  /\ editingTask' = null
  /\ errorMessage' = <<>>
  /\ successMessage' = <<>>
  /\ Ran("onCancelEdit", <<>>)
  /\ UNCHANGED <<storeVars, callVars, channelVars, results, appTasks, isLoading,
                 isSubmitting, lifecycle>>

\* What the user types into the title field of the form in the template.
AppFormTitleInputs == TitleInputs

NextAppForm ==
  \/ NgOnInit
  \/ LoadNext
  \/ TaskFormNgOnInit
  \/ \E task \in Shown : OnEditTask(task)
  \/ \E text \in AppFormTitleInputs : Input("title", text)
  \/ TaskSubmit
  \/ Cancel
  \/ ResultNext

SpecAppForm == Init /\ [][NextAppForm]_vars

-----------------------------------------------------------------------------
(* What the properties below read of the component's latest step. *)

Handled(kind) == event.kind = kind

\* The latest step was the next-callback of a call of op.
Delivered(op) == Handled("resultNext") /\ event.given.op = op

\* The latest step was a handler whose call on the store failed.
Failed(kind) == Handled(kind) /\ calls = event.calls + 1 /\ ~last.result.ok

\* s occurs in text as a run of consecutive pieces.
Contains(text, s) ==
  \E i \in 1..(Len(text) - Len(s) + 1) : SubSeq(text, i, i + Len(s) - 1) = s

\* C14: a submit makes exactly one call on the store: updateTask with the id
\* of the task being edited and the submitted data if a task is being edited
\* when the submit runs, createTask with the submitted data otherwise,
\* whatever the rest of the component's state.
C14_SubmitInvokesOne ==
  Handled("onTaskSubmit") =>
    /\ calls = event.calls + 1
    /\ IF event.pre.editingTask # null
       THEN /\ last.op = "updateTask"
            /\ last.args.id = event.pre.editingTask.id
            /\ last.args.updates = event.given
       ELSE /\ last.op = "createTask"
            /\ last.args.taskData = event.given

\* A submit took the update path while a success message was showing.
C14_Witness ==
  /\ Handled("onTaskSubmit")
  /\ event.pre.editingTask # null
  /\ event.pre.successMessage # <<>>
  /\ last.op = "updateTask"
  /\ last.result.ok

\* C15: when the result of a successful submit is delivered, the success
\* message holds the title of the returned task and isSubmitting is false;
\* after an update no task is being edited, after a create the task being
\* edited is the one that was before the delivery.
C15_SubmitSuccess ==
  /\ Delivered("updateTask") =>
       /\ Contains(successMessage, event.given.result.value.title)
       /\ Contains(successMessage, << "\" updated successfully!" >>)
       /\ ~isSubmitting
       /\ editingTask = null
  /\ Delivered("createTask") =>
       /\ Contains(successMessage, event.given.result.value.title)
       /\ Contains(successMessage, << "\" created successfully!" >>)
       /\ ~isSubmitting
       /\ editingTask = event.pre.editingTask

\* The result of a create is delivered while a task is being edited.
C15_Witness ==
  /\ Delivered("createTask")
  /\ event.pre.isSubmitting
  /\ event.pre.editingTask # null
  /\ editingTask = event.pre.editingTask
  /\ successMessage = << "Task \"", "a", "\" created successfully!" >>

\* C16: when the call of a submit fails, on either path, isSubmitting is false
\* and an error message is set, and the task being edited, the component's
\* copy of the collection and the store's collection are those before the
\* submit.
C16_SubmitFailure ==
  Failed("onTaskSubmit") =>
    /\ ~isSubmitting
    /\ errorMessage # <<>>
    /\ editingTask = event.pre.editingTask
    /\ appTasks = event.pre.tasks
    /\ tasks = event.store

\* The update of a task that was deleted while being edited fails.
C16_Witness ==
  /\ Failed("onTaskSubmit")
  /\ last.op = "updateTask"
  /\ editingTask # null
  /\ errorMessage = NotFound(editingTask.id)
  /\ ~isSubmitting
  /\ Len(appTasks) = 3
  /\ Len(tasks) = 2

\* What error?.message || message selects, said without the operator.
Displayed(generic, error) ==
  IF "message" \in DOMAIN error
  THEN (IF error.message = <<>> THEN generic ELSE error.message)
  ELSE generic

\* Errors with a message, with an empty one and without one, and no error
\* object at all.
ErrorInputs ==
  { Error(NotFound(InvalidId)), Error(<<>>), [name |-> "Error"], null }

\* C17: whenever a call made by a handler fails, the error message shown is
\* the failure's own message when it has a non-empty one, and the handler's
\* generic message only when it has none; handleError selects the same for
\* every shape of error.
C17_ErrorMessageVerbatim ==
  /\ Failed("onTaskSubmit") =>
       errorMessage = Displayed(IF last.op = "updateTask" THEN FailedToUpdate
                                                         ELSE FailedToCreate,
                                last.result)
  /\ Failed("onToggleComplete") =>
       errorMessage = Displayed(FailedToToggle, last.result)
  /\ Failed("onDeleteTask") =>
       errorMessage = Displayed(FailedToDelete, last.result)
  /\ \A error \in ErrorInputs :
       \A generic \in {FailedToLoad, FailedToUpdate, FailedToCreate,
                        FailedToToggle, FailedToDelete} :
         handleError(generic, error) = Displayed(generic, error)

\* The delete of a task that is no longer in the store shows the store's
\* not-found message, not the generic one.
C17_Witness ==
  /\ Failed("onDeleteTask")
  /\ errorMessage = NotFound(event.given)
  /\ errorMessage # FailedToDelete
  /\ successMessage = <<>>

\* C18: when the result of a delete is delivered, a success message is shown,
\* and the task being edited is cleared if its id is the deleted id and left
\* as it was otherwise.
C18_DeleteSuccess ==
  Delivered("deleteTask") =>
    /\ successMessage = << "Task deleted successfully!" >>
    /\ editingTask =
         IF event.pre.editingTask # null
            /\ event.pre.editingTask.id = event.given.args.id
         THEN null
         ELSE event.pre.editingTask

\* A delete succeeded while another task was being edited.
C18_Witness ==
  /\ Delivered("deleteTask")
  /\ event.pre.editingTask # null
  /\ event.pre.editingTask.id # event.given.args.id
  /\ editingTask = event.pre.editingTask
  /\ successMessage # <<>>

\* C19: when the result of a toggle is delivered, the success message says
\* 'completed' if the returned task is completed and 'pending' if not; neither
\* the handler nor the delivery changes the task being edited or isSubmitting.
C19_ToggleSuccess ==
  /\ Delivered("toggleTaskCompletion") =>
       /\ successMessage =
            << "Task marked as ",
               IF event.given.result.value.completed THEN "completed" ELSE "pending",
               "!" >>
       /\ editingTask = event.pre.editingTask
       /\ isSubmitting = event.pre.isSubmitting
  /\ Handled("onToggleComplete") =>
       /\ editingTask = event.pre.editingTask
       /\ isSubmitting = event.pre.isSubmitting

\* A task toggled back to pending while a task is being edited.
C19_Witness ==
  /\ Delivered("toggleTaskCompletion")
  /\ ~event.given.result.value.completed
  /\ successMessage = << "Task marked as ", "pending", "!" >>
  /\ editingTask # null

\* C20: onEditTask sets the task being edited to the given task and
\* onCancelEdit sets it to none; both clear the error and the success message,
\* and neither changes the component's copy of the collection, isLoading,
\* isSubmitting or the store's collection.
C20_EditAndCancel ==
  /\ Handled("onEditTask") => editingTask = event.given
  /\ Handled("onCancelEdit") => editingTask = null
  /\ (Handled("onEditTask") \/ Handled("onCancelEdit")) =>
       /\ errorMessage = <<>>
       /\ successMessage = <<>>
       /\ appTasks = event.pre.tasks
       /\ isLoading = event.pre.isLoading
       /\ isSubmitting = event.pre.isSubmitting
       /\ tasks = event.store
       /\ calls = event.calls

\* An edit begins while a success message shows and a submit is under way.
C20_Witness ==
  /\ Handled("onEditTask")
  /\ event.pre.successMessage # <<>>
  /\ event.pre.isSubmitting
  /\ isSubmitting
  /\ editingTask = event.given
  /\ successMessage = <<>>

\* C21: ngOnInit sets isLoading and clears both messages; every snapshot
\* delivered afterwards replaces the component's copy with exactly that
\* snapshot and ends the loading state; a load failure sets the error message
\* and ends the loading state; and no step after ngOnInit that begins with
\* isLoading false ends with it true.
C21_Loading ==
  /\ Handled("ngOnInit") =>
       /\ isLoading
       /\ errorMessage = <<>>
       /\ successMessage = <<>>
  /\ Handled("loadNext") =>
       /\ appTasks = event.given
       /\ appTasks = received[1][Len(received[1])]
       /\ ~isLoading
  /\ \A error \in ErrorInputs :
       /\ ~loadError(App, error).isLoading
       /\ loadError(App, error).errorMessage = Displayed(FailedToLoad, error)
       /\ loadError(App, error).errorMessage # <<>>
  /\ (~Handled("none") /\ ~Handled("ngOnInit") /\ ~event.pre.isLoading) => ~isLoading

\* A second snapshot replaces the component's copy after loading has ended.
C21_Witness ==
  /\ Handled("loadNext")
  /\ ~event.pre.isLoading
  /\ Len(received[1]) = 2
  /\ appTasks = tasks
  /\ appTasks # event.pre.tasks

\* C22: while a live component shows a success message, the timer started
\* when it was shown is pending, and when a success timer runs out the
\* message is empty: unless something clears it earlier, the message is gone
\* 3000 ms after it was shown.  (The timers of one delay run out in the order
\* they were started, so a pending success timer while a message shows
\* includes the one started with it.)
C22_SuccessExpires ==
  /\ (lifecycle = "initialized" /\ successMessage # <<>>) =>
       /\ \E i \in 1..Len(timers) : IsClear(timers[i])
       /\ \A i \in 1..Len(timers) : IsClear(timers[i]) => timers[i].delay = 3000
  /\ Handled("successTimeout") => successMessage = <<>>

\* The only success timer pending ran out and cleared the message it was
\* started with.
C22_Witness ==
  /\ lifecycle = "initialized"
  /\ Handled("successTimeout")
  /\ event.pre.successMessage # <<>>
  /\ successMessage = <<>>
  /\ timers = <<>>
  /\ calls = 1

\* C23: a success message is never cleared by the timer of an earlier success
\* message: when a success timer runs out and clears a message, it is the
\* timer started with that message, the last one started, so no success timer
\* is left pending.
C23_OnlyOwnTimerClears ==
  (Handled("successTimeout") /\ event.pre.successMessage # <<>>) =>
    \A i \in 1..Len(timers) : ~IsClear(timers[i])

\* C24: after ngOnDestroy no timer callback changes the component: a success
\* timer that runs out on a destroyed component leaves every field as it was.
C24_NoTimerAfterTeardown ==
  (lifecycle = "destroyed" /\ Handled("successTimeout")) => App = event.pre

\* C25: after ngOnDestroy no snapshot and no result of a call is delivered to
\* the component: the only steps of a destroyed component are ngOnDestroy
\* itself and success timers running out, and they leave its copy of the
\* collection, isLoading, isSubmitting, the task being edited and the error
\* message as they were, and the store's collection with every mutation made
\* before.
C25_TeardownCancels ==
  lifecycle = "destroyed" =>
    /\ Handled("ngOnDestroy") \/ Handled("successTimeout")
    /\ Handled("ngOnDestroy") => successMessage = event.pre.successMessage
    /\ appTasks = event.pre.tasks
    /\ isLoading = event.pre.isLoading
    /\ isSubmitting = event.pre.isSubmitting
    /\ editingTask = event.pre.editingTask
    /\ errorMessage = event.pre.errorMessage
    /\ tasks = event.store

\* A component destroyed while the result of its create and the snapshot
\* announcing it were on their way: nothing is pending any more, the
\* component still says it is submitting and shows the three seed tasks, and
\* the store holds the created task.
C25_Witness ==
  /\ lifecycle = "destroyed"
  /\ timers = <<>>
  /\ last.op = "createTask"
  /\ last.result.ok
  /\ isSubmitting
  /\ Len(appTasks) = 3
  /\ Len(tasks) = 4
  /\ tasks[4] = last.result.value

\* C26: in every state reached by store calls from the seeded store, every
\* task of the collection has a title that is not empty and neither begins nor
\* ends with whitespace.
C26_TitlesTrimmed ==
  \A i \in 1..Len(tasks) :
    /\ tasks[i].title # <<>>
    /\ tasks[i].title[1] \notin Whitespace
    /\ tasks[i].title[Len(tasks[i].title)] \notin Whitespace

\* An update whose title came with whitespace around it replaced the title of
\* a task.
C26_Witness ==
  /\ Called("updateTask")
  /\ last.result.ok
  /\ "title" \in DOMAIN last.args.updates
  /\ last.args.updates.title = << " ", "a", " " >>
  /\ tasks[TargetIndex].title = << "a" >>
  /\ last.pre.tasks[TargetIndex].title # << "a" >>

\* C27: with a clock that never runs backwards, every task of the collection
\* has updatedAt >= createdAt in every state, and no call changes the id or the
\* createdAt of a task it leaves in the collection: an update or a toggle keeps
\* them at every position, a create keeps the tasks there were, and a delete
\* keeps those it does not remove.
C27_TimestampsAndIdentity ==
  /\ \A i \in 1..Len(tasks) : tasks[i].updatedAt >= tasks[i].createdAt
  /\ (Called("updateTask") \/ Called("toggleTaskCompletion")) =>
       /\ Len(tasks) = Len(last.pre.tasks)
       /\ \A i \in 1..Len(tasks) :
            /\ tasks[i].id = last.pre.tasks[i].id
            /\ tasks[i].createdAt = last.pre.tasks[i].createdAt
  /\ Called("createTask") =>
       \A i \in 1..Len(last.pre.tasks) : tasks[i] = last.pre.tasks[i]
  /\ Called("deleteTask") =>
       \A j \in 1..Len(tasks) :
         \E i \in 1..Len(last.pre.tasks) : tasks[j] = last.pre.tasks[i]

\* A task updated after the clock moved on: updatedAt is later than createdAt.
C27_Witness ==
  /\ Called("updateTask")
  /\ last.result.ok
  /\ tasks[TargetIndex].createdAt = 0
  /\ tasks[TargetIndex].updatedAt = 1
  /\ tasks[TargetIndex].id = last.args.id

\* The tasks of full whose completed flag is c, in the order of full.
RECURSIVE Matching(_, _)
Matching(full, c) ==
  IF full = <<>> THEN <<>>
  ELSE (IF Head(full).completed = c THEN << Head(full) >> ELSE <<>>)
       \o Matching(Tail(full), c)

\* C28: every snapshot a subscriber of getTasksByStatus(c) is handed is the
\* snapshot getTasks() carries at that rank restricted, in order, to the tasks
\* whose completed flag is c; what it is handed are snapshots only, never an
\* error; and subscribing and delivering leave the collection as the latest
\* call left it.
C28_ByStatusFilters ==
  /\ \A k \in 1..Len(received) :
       statuses[k] # <<>> =>
         /\ Len(received[k]) <= Len(expected[k])
         /\ \A n \in 1..Len(received[k]) :
              received[k][n] = Matching(expected[k][n], statuses[k][1])
  /\ tasks = IF last.op = "none" THEN Constructed.tasks
             ELSE IF last.result.ok THEN last.emitted[1]
             ELSE last.pre.tasks

\* A subscriber of the completed tasks was handed none of the three seed
\* tasks, then the one a toggle completed.
C28_Witness ==
  \E k \in 1..Len(received) :
    /\ statuses[k] = << TRUE >>
    /\ Len(received[k]) = 2
    /\ received[k][1] = <<>>
    /\ Len(expected[k][2]) = 3
    /\ Len(received[k][2]) = 1
    /\ received[k][2][1].completed

\* C29: onSubmit emits on taskSubmit if and only if the title field holds
\* something other than whitespace; what it emits is one request whose title
\* and description are the field values trimmed, so the title it emits is
\* never blank.
C29_FormEmitsValid ==
  formEvent.kind = "onSubmit" =>
    LET fields == formEvent.pre
        given == formEvent.emitted
    IN  /\ given # <<>> <=>
             \E i \in 1..Len(fields.title) : fields.title[i] \notin Whitespace
        /\ given # <<>> =>
             /\ Len(given) = 1
             /\ given[1].title = trim(fields.title)
             /\ given[1].description = trim(fields.description)
             /\ given[1].title # <<>>
             /\ given[1].title[1] \notin Whitespace
             /\ given[1].title[Len(given[1].title)] \notin Whitespace
        /\ formData = fields

\* A title and a description typed with whitespace around them are emitted
\* trimmed.
C29_Witness ==
  /\ formEvent.kind = "onSubmit"
  /\ formEvent.pre = [title |-> << " ", "a", " " >>,
                      description |-> << " ", "b", "\t" >>]
  /\ formEvent.emitted = << [title |-> << "a" >>, description |-> << "b" >>] >>

\* The collection and the subject hold what the successful call op(args)
\* with result value did, no call having been made since.
Applied(op, args, value) ==
  /\ tasksSubject = tasks
  /\ last.emitted = << tasks >>
  /\ CASE op = "createTask" ->
            /\ Len(tasks) = Len(last.pre.tasks) + 1
            /\ tasks[Len(tasks)] = value
       [] op \in {"updateTask", "toggleTaskCompletion"} ->
            /\ findIndex(tasks, args.id) # 0
            /\ tasks[findIndex(tasks, args.id)] = value
       [] op = "deleteTask" ->
            /\ findIndex(last.pre.tasks, args.id) # 0
            /\ findIndex(tasks, args.id) = 0
            /\ Len(tasks) = Len(last.pre.tasks) - 1

\* C30: the success result of a create, update, delete or toggle is handed to
\* its caller in a step after the call, and the call itself mutated the
\* collection and announced the snapshot: as long as no other call was made,
\* the collection and the subject hold the call's effect both while its result
\* is still on its way and when it has been delivered.
C30_MutationBeforeResult ==
  /\ \A i \in 1..Len(timers) :
       (IsResult(timers[i]) /\ timers[i].call = calls
          /\ timers[i].op # "getTaskById")
       => Applied(timers[i].op, timers[i].args, timers[i].result.value)
  /\ \A j \in 1..Len(results) :
       (results[j].call = calls /\ results[j].result.ok
          /\ last.op # "getTaskById")
       => /\ Applied(last.op, last.args, results[j].result.value)
          /\ \A i \in 1..Len(timers) : timers[i].call # calls

\* The result of an update is delivered; the collection has held the updated
\* task since the call.
C30_Witness ==
  /\ calls = 1
  /\ last.op = "updateTask"
  /\ Len(results) = 1
  /\ results[1].call = 1
  /\ results[1].result.ok
  /\ tasks[1] = results[1].result.value
  /\ tasks[1] # last.pre.tasks[1]
  /\ last.emitted = << tasks >>

\* Rank of an id among the ids issued (0: never issued).
IssuedRank(id) ==
  IF \E n \in 1..Len(issued) : issued[n] = id
  THEN CHOOSE n \in 1..Len(issued) : issued[n] = id
  ELSE 0

\* C31: the collection is in the order the tasks were created in; a successful
\* create appends the new task after the tasks there were, an update or a
\* toggle replaces the task where it stood, a delete removes one task and
\* keeps the others in their order; and the snapshot announced is the
\* collection in that order.
C31_InsertionOrder ==
  /\ \A i, j \in 1..Len(tasks) :
       i < j => /\ IssuedRank(tasks[i].id) # 0
                /\ IssuedRank(tasks[i].id) < IssuedRank(tasks[j].id)
  /\ tasksSubject = tasks
  /\ (~Called("none") /\ last.result.ok) =>
       LET pre == last.pre.tasks IN
       /\ last.emitted = << tasks >>
       /\ Called("createTask") =>
            /\ Len(tasks) = Len(pre) + 1
            /\ \A i \in 1..Len(pre) : tasks[i] = pre[i]
            /\ tasks[Len(tasks)] = last.result.value
       /\ (Called("updateTask") \/ Called("toggleTaskCompletion")) =>
            /\ OnlyChangedAt(pre, TargetIndex)
            /\ tasks[TargetIndex].id = last.args.id
       /\ Called("deleteTask") =>
            /\ Len(tasks) = Len(pre) - 1
            /\ \A i \in 1..Len(tasks) :
                 tasks[i] = IF i < TargetIndex THEN pre[i] ELSE pre[i + 1]

\* The first of at least three tasks is deleted: the others move up in order.
C31_Witness ==
  /\ Called("deleteTask")
  /\ last.result.ok
  /\ TargetIndex = 1
  /\ Len(tasks) >= 2
  /\ tasks[1] = last.pre.tasks[2]
  /\ tasks[2] = last.pre.tasks[3]
  /\ tasks[1] # tasks[2]

\* C32: an update that names an id not in the collection and carries a title
\* that is empty or whitespace only fails with the not-found error, not with
\* the title error, and changes nothing.
C32_IdCheckedFirst ==
  ( /\ Called("updateTask")
    /\ findIndex(last.pre.tasks, last.args.id) = 0
    /\ "title" \in DOMAIN last.args.updates
    /\ \A i \in 1..Len(last.args.updates.title) :
         last.args.updates.title[i] \in Whitespace )
  => /\ last.result = Error(NotFound(last.args.id))
     /\ last.result.message # TitleCannotBeEmpty
     /\ StoreUntouched

\* A whitespace-only title for an id that was never issued.
C32_Witness ==
  /\ Called("updateTask")
  /\ last.args.id = InvalidId
  /\ "title" \in DOMAIN last.args.updates
  /\ last.args.updates.title = << " ", "\t" >>
  /\ ~last.result.ok
  /\ last.result.message = NotFound(InvalidId)

\* C33: when the result of a create, update, toggle or delete the component
\* issued is delivered to it, and its success message shown, the component's
\* copy of the collection is a snapshot it was handed and already holds what
\* the call did: the created task, the updated or toggled task as returned,
\* or no task with the deleted id.
C33_SnapshotBeforeResult ==
  Handled("resultNext") =>
    LET op == event.given.op
        args == event.given.args
        value == event.given.result.value
    IN  /\ successMessage # <<>>
        /\ received[1] # <<>>
        /\ appTasks = received[1][Len(received[1])]
        /\ CASE op = "createTask" ->
                 \E i \in 1..Len(appTasks) : appTasks[i] = value
              [] op \in {"updateTask", "toggleTaskCompletion"} ->
                 /\ findIndex(appTasks, args.id) # 0
                 /\ appTasks[findIndex(appTasks, args.id)] = value
              [] op = "deleteTask" ->
                 findIndex(appTasks, args.id) = 0

\* The success of a delete is shown; the component's copy has lost the task.
C33_Witness ==
  /\ Delivered("deleteTask")
  /\ successMessage = DeletedMessage
  /\ Len(appTasks) = 2
  /\ findIndex(appTasks, event.given.args.id) = 0
  /\ findIndex(event.store, event.given.args.id) = 0

\* C34: if the component is initialized and never destroyed, then, the calls
\* it makes on the store coming to an end, from some point on its copy of the
\* collection is the store's collection and isLoading is false, for ever.
C34_EventuallyInSync ==
  <>[](lifecycle = "initialized") => <>[](appTasks = tasks /\ ~isLoading)

\* Every snapshot of two calls has been handed over: the copy is the
\* collection.
C34_Witness ==
  /\ lifecycle = "initialized"
  /\ calls = 2
  /\ last.result.ok
  /\ Len(received[1]) >= 2
  /\ \A i \in 1..Len(timers) : IsClear(timers[i])
  /\ appTasks = tasks
  /\ appTasks # Constructed.tasks
  /\ ~isLoading

\* C35: the error message and the success message are never both non-empty.
C35_MessagesExclusive ==
  ~(errorMessage # <<>> /\ successMessage # <<>>)

\* The result of a submit the component issued is still on its way.
SubmitOutstanding ==
  \E i \in 1..Len(timers) :
    IsResult(timers[i]) /\ timers[i].op \in {"createTask", "updateTask"}

\* C36: in a live component isSubmitting is true whenever the result of a
\* submit is still on its way.
C36_SubmittingWhileOutstanding ==
  (lifecycle = "initialized" /\ SubmitOutstanding) => isSubmitting

\* C37: the success of an update leaves the task being edited alone when it
\* is no longer the task that was updated.
C37_UpdateKeepsOtherEdit ==
  ( /\ Delivered("updateTask")
    /\ event.pre.editingTask # null
    /\ event.pre.editingTask.id # event.given.args.id )
  => editingTask = event.pre.editingTask

\* Every snapshot and every result of a live component has been handed over.
Quiescent ==
  /\ lifecycle = "initialized"
  /\ \A i \in 1..Len(timers) : IsClear(timers[i])

\* C38: begin-edit being given tasks of the component's copy only, whenever
\* every snapshot and result of a live component has been handed over, no task
\* is being edited or the task being edited has its id in the store's
\* collection.
C38_EditedTaskExists ==
  Quiescent => (editingTask = null \/ findIndex(tasks, editingTask.id) # 0)

C38_Witness ==
  /\ Quiescent
  /\ Delivered("deleteTask")
  /\ event.pre.editingTask # null
  /\ event.pre.editingTask.id = event.given.args.id
  /\ findIndex(tasks, event.given.args.id) = 0
  /\ editingTask = null

\* C39: while the form is in edit mode and its fields have not been touched
\* since its initialisation, they hold the title and the description of the
\* task being edited.
C39_EditFormHoldsTask ==
  (formEvent.kind = "ngOnInit" /\ editingTask # null)
  => formData = [title |-> editingTask.title,
                 description |-> editingTask.description]

====
